---- MODULE Spec2Model ----
(***************************************************************************)
(* Model of aiService.js: the provider adapter with its two operations,    *)
(* extractFeatures and generateGuide, each an async function that issues   *)
(* one request to the Gemini or the OpenAI client, is suspended until the  *)
(* client's promise settles, and then post-processes the response.         *)
(*                                                                         *)
(* A text is a sequence of symbols.  The payload of an extraction is a     *)
(* sequence of JSON lexemes (punctuation, whitespace, literals, quoted     *)
(* strings); the payload of a guide is a sequence of characters.           *)
(***************************************************************************)
EXTENDS Integers, Sequences, FiniteSets, TLC

\* ------------------------------------------------------------------ bounds
\* Largest number of feature objects in a generated envelope.
MaxFeatures == 2
\* Largest length of an arbitrary (mostly malformed) lexeme sequence.
MaxRawLen == 3
\* Largest length of the inner text of a fenced guide response.
MaxInner == 4

\* ------------------------------------------------------- JavaScript values
Undefined == [type |-> "undefined"]
Null == [type |-> "null"]
JBool(b) == [type |-> "boolean", bool |-> b]
JNum(n) == [type |-> "number", num |-> n]
\* a string whose content is not inspected (provider names, JSON strings)
JStr(s) == [type |-> "string", str |-> s]
\* a string given by its characters (prompts' results, guide markup)
Text(chars) == [type |-> "string", chars |-> chars]
JArr(elems) == [type |-> "array", elems |-> elems]
\* an object: its own properties in insertion order, as <<key, value>> pairs
JObj(props) == [type |-> "object", props |-> props]

TypeError == [type |-> "TypeError"]
SyntaxError == [type |-> "SyntaxError"]
TransportError == [type |-> "TransportError"]

\* outcome of evaluating an expression: a value or a thrown error
Ok(v) == [threw |-> FALSE, val |-> v]
Throw(e) == [threw |-> TRUE, val |-> e]

\* ToBoolean, as applied by the || operator
Truthy(x) ==
  CASE x.type = "undefined" -> FALSE
    [] x.type = "null" -> FALSE
    [] x.type = "boolean" -> x.bool
    [] x.type = "number" -> x.num # 0
    [] x.type = "string" ->
         IF "chars" \in DOMAIN x THEN x.chars # <<>> ELSE x.str # ""
    [] OTHER -> TRUE

\* ------------------------------------------------------------ text helpers
SeqsUpTo(S, n) == UNION {[1..k -> S] : k \in 0..n}

\* characters removed by String.prototype.trim; "nbsp" is U+00A0
TrimSpace == {" ", "\n", "nbsp"}
\* whitespace the JSON grammar allows between tokens
JsonSpace == {" ", "\n"}

RECURSIVE TrimStart(_)
TrimStart(s) ==
  IF s # <<>> /\ Head(s) \in TrimSpace THEN TrimStart(Tail(s)) ELSE s

RECURSIVE TrimEnd(_)
TrimEnd(s) ==
  IF s # <<>> /\ s[Len(s)] \in TrimSpace
  THEN TrimEnd(SubSeq(s, 1, Len(s) - 1)) ELSE s

Trim(s) == TrimEnd(TrimStart(s))

StartsWith(s, p) == Len(s) >= Len(p) /\ SubSeq(s, 1, Len(p)) = p

\* ------------------------------------------------------------ JSON lexemes
StringPool ==
  {"", "a", "b", "c", "extractedFeatures", "featureName", "featureSummary",
   "potentialUseCases", "Auto-scale Pods", "Scales pods.", "Image mode",
   "Bootable containers."}

Quote(s) == "\"" \o s \o "\""
StringLexemes == {Quote(s) : s \in StringPool}
Unquote(lex) == CHOOSE s \in StringPool : Quote(s) = lex

NumberLexemes == {"0", "1"}
NumVal(lex) == IF lex = "0" THEN 0 ELSE 1
LiteralLexemes == {"null", "true", "false"}

ScalarLexemes == StringLexemes \cup NumberLexemes \cup LiteralLexemes
ScalarVal(lex) ==
  CASE lex \in StringLexemes -> JStr(Unquote(lex))
    [] lex \in NumberLexemes -> JNum(NumVal(lex))
    [] lex = "null" -> Null
    [] lex = "true" -> JBool(TRUE)
    [] OTHER -> JBool(FALSE)

\* --------------------------------------------------------------- JSON.parse
RECURSIVE SkipWs(_, _)
SkipWs(t, i) ==
  IF i <= Len(t) /\ t[i] \in JsonSpace THEN SkipWs(t, i + 1) ELSE i

At(t, i, sym) == i <= Len(t) /\ t[i] = sym

ParseFail == [ok |-> FALSE, val |-> Undefined, next |-> 0]
ParseOk(v, n) == [ok |-> TRUE, val |-> v, next |-> n]

HasKey(props, k) == \E i \in 1..Len(props) : props[i][1] = k

\* defining a property: an existing key keeps its position and takes the
\* new value (a duplicated key in JSON text: the last one wins)
SetProp(props, k, v) ==
  IF HasKey(props, k)
  THEN [i \in 1..Len(props) |-> IF props[i][1] = k THEN <<k, v>> ELSE props[i]]
  ELSE Append(props, <<k, v>>)

RECURSIVE ParseValue(_, _)
RECURSIVE ParseElements(_, _, _)
RECURSIVE ParseMembers(_, _, _)

ParseValue(t, i) ==
  LET j == SkipWs(t, i) IN
  IF j > Len(t) THEN ParseFail
  ELSE IF t[j] \in ScalarLexemes THEN ParseOk(ScalarVal(t[j]), j + 1)
  ELSE IF t[j] = "[" THEN
    IF At(t, SkipWs(t, j + 1), "]")
    THEN ParseOk(JArr(<<>>), SkipWs(t, j + 1) + 1)
    ELSE ParseElements(t, j + 1, <<>>)
  ELSE IF t[j] = "{" THEN
    IF At(t, SkipWs(t, j + 1), "}")
    THEN ParseOk(JObj(<<>>), SkipWs(t, j + 1) + 1)
    ELSE ParseMembers(t, j + 1, <<>>)
  ELSE ParseFail

ParseElements(t, i, acc) ==
  LET r == ParseValue(t, i) IN
  IF ~r.ok THEN ParseFail
  ELSE LET k == SkipWs(t, r.next) IN
    IF At(t, k, ",") THEN ParseElements(t, k + 1, Append(acc, r.val))
    ELSE IF At(t, k, "]") THEN ParseOk(JArr(Append(acc, r.val)), k + 1)
    ELSE ParseFail

ParseMembers(t, i, acc) ==
  LET j == SkipWs(t, i) IN
  IF ~(j <= Len(t) /\ t[j] \in StringLexemes) THEN ParseFail
  ELSE LET c == SkipWs(t, j + 1) IN
    IF ~At(t, c, ":") THEN ParseFail
    ELSE LET r == ParseValue(t, c + 1) IN
      IF ~r.ok THEN ParseFail
      ELSE LET k == SkipWs(t, r.next)
               props == SetProp(acc, Unquote(t[j]), r.val) IN
        IF At(t, k, ",") THEN ParseMembers(t, k + 1, props)
        ELSE IF At(t, k, "}") THEN ParseOk(JObj(props), k + 1)
        ELSE ParseFail

\* JSON.parse(x): x is converted to a string first; undefined and objects
\* convert to text that is not JSON, null converts to the text "null"
JSONparse(x) ==
  IF x.type = "string" /\ "chars" \in DOMAIN x THEN
    LET r == ParseValue(x.chars, 1) IN
    IF r.ok /\ SkipWs(x.chars, r.next) > Len(x.chars)
    THEN Ok(r.val) ELSE Throw(SyntaxError)
  ELSE IF x.type = "null" THEN Ok(Null)
  ELSE Throw(SyntaxError)

\* ---------------------------------------------------------- JSON.stringify
RECURSIVE Stringify(_)
RECURSIVE StringifyElems(_)
RECURSIVE StringifyProps(_)

Stringify(x) ==
  CASE x.type = "array" -> <<"[">> \o StringifyElems(x.elems) \o <<"]">>
    [] x.type = "object" -> <<"{">> \o StringifyProps(x.props) \o <<"}">>
    [] x.type = "string" -> <<Quote(x.str)>>
    [] x.type = "number" -> IF x.num = 0 THEN <<"0">> ELSE <<"1">>
    [] x.type = "boolean" -> IF x.bool THEN <<"true">> ELSE <<"false">>
    [] OTHER -> <<"null">>

StringifyElems(es) ==
  IF es = <<>> THEN <<>>
  ELSE IF Len(es) = 1 THEN Stringify(es[1])
  ELSE Stringify(es[1]) \o <<",">> \o StringifyElems(Tail(es))

StringifyProps(ps) ==
  IF ps = <<>> THEN <<>>
  ELSE IF Len(ps) = 1 THEN <<Quote(ps[1][1]), ":">> \o Stringify(ps[1][2])
  ELSE <<Quote(ps[1][1]), ":">> \o Stringify(ps[1][2]) \o <<",">>
       \o StringifyProps(Tail(ps))

\* --------------------------------------------------------- property access
\* x[k] / x.k: reading a property of undefined or null throws a TypeError;
\* an array answers to the index keys "0", "1", ...; anything else without
\* the property yields undefined
IndexKeys == <<"0", "1", "2">>

PropIndex(props, k) == CHOOSE i \in 1..Len(props) : props[i][1] = k
ElemIndex(k) == CHOOSE i \in 1..Len(IndexKeys) : IndexKeys[i] = k
IsIndexKey(k) == \E i \in 1..Len(IndexKeys) : IndexKeys[i] = k

GetProp(x, k) ==
  CASE x.type \in {"undefined", "null"} -> Throw(TypeError)
    [] x.type = "object" ->
         IF HasKey(x.props, k)
         THEN Ok(x.props[PropIndex(x.props, k)][2]) ELSE Ok(Undefined)
    [] x.type = "array" ->
         IF IsIndexKey(k) /\ ElemIndex(k) <= Len(x.elems)
         THEN Ok(x.elems[ElemIndex(k)]) ELSE Ok(Undefined)
    [] OTHER -> Ok(Undefined)

\* a chain of property reads, x.a.b[0].c: the first throwing read ends it
RECURSIVE Access(_, _)
Access(x, path) ==
  IF path = <<>> THEN Ok(x)
  ELSE LET r == GetProp(x, Head(path)) IN
       IF r.threw THEN r ELSE Access(r.val, Tail(path))

\* faulty variant: the response text is parsed without being trimmed
CallTrimNone(x) ==
  IF x.type = "string" /\ "chars" \in DOMAIN x THEN Ok(x) ELSE Throw(TypeError)

\* s.trim(): only a string has the method
CallTrim(x) ==
  IF x.type = "string" /\ "chars" \in DOMAIN x
  THEN Ok(Text(Trim(x.chars))) ELSE Throw(TypeError)

\* --------------------------------------------------- fence stripping (guide)
\* "bq" is the backquote character U+0060
Fence == <<"bq", "bq", "bq">>
HtmlTag == <<"h", "t", "m", "l">>
Drop(s, n) == SubSeq(s, n + 1, Len(s))

\* faulty variant: the replace without the global flag removes the first fence only
ReplaceFirstFence(s) ==
  IF \E i \in 1..Len(s) : StartsWith(Drop(s, i - 1), Fence)
  THEN LET i == CHOOSE i \in 1..Len(s) :
                  /\ StartsWith(Drop(s, i - 1), Fence)
                  /\ \A j \in 1..(i - 1) : ~StartsWith(Drop(s, j - 1), Fence)
           n == IF StartsWith(Drop(s, i + 2), HtmlTag) THEN 7 ELSE 3
       IN SubSeq(s, 1, i - 1) \o Drop(s, i - 1 + n)
  ELSE s

\* the global replace of generateGuide (pattern: three backticks, then
\* optionally html; replacement: the empty string): scanning left to right,
\* every fence is removed together with an html tag that directly follows it
RECURSIVE ReplaceFences(_)
ReplaceFences(s) ==
  IF s = <<>> THEN <<>>
  ELSE IF StartsWith(s, Fence) THEN
    IF StartsWith(Drop(s, 3), HtmlTag)
    THEN ReplaceFences(Drop(s, 7)) ELSE ReplaceFences(Drop(s, 3))
  ELSE <<Head(s)>> \o ReplaceFences(Tail(s))

\* responseText.replace(...).trim()
CallReplaceTrim(x) ==
  IF x.type = "string" /\ "chars" \in DOMAIN x
  THEN Ok(Text(Trim(ReplaceFences(x.chars)))) ELSE Throw(TypeError)

FallbackFragment ==
  Text(<<
    "<", "h", "3", ">", "E", "r", "r", "o", "r", " ", "G", "e", "n", "e",
    "r", "a", "t", "i", "n", "g", " ", "G", "u", "i", "d", "e", "<", "/",
    "h", "3", ">", "<", "p", ">", "C", "o", "u", "l", "d", " ", "n", "o",
    "t", " ", "g", "e", "n", "e", "r", "a", "t", "e", " ", "t", "h", "e",
    " ", "t", "e", "c", "h", "n", "i", "c", "a", "l", " ", "g", "u", "i",
    "d", "e", " ", "u", "s", "i", "n", "g", " ", "t", "h", "e", " ", "s",
    "e", "l", "e", "c", "t", "e", "d", " ", "A", "I", " ", "p", "r", "o",
    "v", "i", "d", "e", "r", ".", "<", "/", "p", ">" >>)

\* ------------------------------------------------------------ configuration
GEMINI_MODEL_EXTRACT == "gemini-2.5-flash"
GEMINI_MODEL_GUIDE == "gemini-2.5-pro"
CHATGPT_MODEL_EXTRACT == "gpt-4o-mini"
CHATGPT_MODEL_GUIDE == "gpt-4o"

geminiExtractionSchema == "array of featureObjectSchema"
openaiExtractionSchema == "object { extractedFeatures: array of featureObjectSchema }"

\* the module-level bindings created when the module is loaded
ModuleState ==
  [ai |-> [apiKey |-> "GEMINI_API_KEY"],
   openai |-> [apiKey |-> "OPENAI_API_KEY"],
   models |-> <<GEMINI_MODEL_EXTRACT, GEMINI_MODEL_GUIDE,
                CHATGPT_MODEL_EXTRACT, CHATGPT_MODEL_GUIDE>>,
   schemas |-> <<geminiExtractionSchema, openaiExtractionSchema>>]

\* ------------------------------------------------------------------ provider
\* the default parameter value applies to an absent (undefined) argument only
DefaultProvider(p) == IF p.type = "undefined" THEN JStr("gemini") ELSE p

\* provider === "openai"
IsOpenAI(p) == p.type = "string" /\ p.str = "openai"

\* provider.toUpperCase(): only a string has the method
ToUpperCase(p) ==
  IF p.type # "string" THEN Throw(TypeError)
  ELSE Ok(CASE p.str = "gemini" -> "GEMINI"
            [] p.str = "openai" -> "OPENAI"
            [] p.str = "chatgpt" -> "CHATGPT"
            [] OTHER -> p.str)

ClientOf(p) == IF IsOpenAI(p) THEN "openai" ELSE "ai"

\* ------------------------------------------------- provider responses (env)
featureObjectSchema == {"featureName", "featureSummary", "potentialUseCases"}

Feature1 ==
  JObj(<< <<"featureName", JStr("Auto-scale Pods")>>,
          <<"featureSummary", JStr("Scales pods.")>>,
          <<"potentialUseCases", JArr(<<JStr("a"), JStr("b"), JStr("c")>>)>> >>)
Feature2 ==
  JObj(<< <<"featureName", JStr("Image mode")>>,
          <<"featureSummary", JStr("Bootable containers.")>>,
          <<"potentialUseCases", JArr(<<JStr("a")>>)>> >>)
Features == {Feature1, Feature2}

\* payloads conforming to the array envelope
FeatureArrays == {JArr(fs) : fs \in SeqsUpTo(Features, MaxFeatures)}
\* the object envelope: the array under the key extractedFeatures
Wrap(v) == JObj(<< <<"extractedFeatures", v>> >>)

\* valid JSON that is not an array
OtherJson ==
  {Null, JNum(0), JNum(1), JStr(""), JStr("a"), JBool(FALSE), JObj(<<>>)}

JsonValues ==
  FeatureArrays \cup {Wrap(a) : a \in FeatureArrays}
    \cup OtherJson \cup {Wrap(v) : v \in OtherJson}

Paddings == {<<>>, <<" ", "\n">>, <<"nbsp">>}
RawAlphabet == {"[", "]", "{", "}", ",", ":", "1", Quote("extractedFeatures")}

\* texts a provider may produce as the extraction payload
ExtractTexts ==
  {l \o Stringify(v) \o r : l \in Paddings, v \in JsonValues, r \in Paddings}
    \cup SeqsUpTo(RawAlphabet, MaxRawLen)

GuideAlphabet == {"bq", "h", "t", "m", "l", " "}
Inners == SeqsUpTo(GuideAlphabet, MaxInner)
Tags == {<<>>, HtmlTag}
Wrapped(tag, inner) == Fence \o tag \o inner \o Fence

\* texts a provider may produce as the guide: fenced and bare
GuideTexts ==
  {Wrapped(tag, inner) : tag \in Tags, inner \in Inners}
    \cup {inner \in Inners : Len(inner) <= MaxInner - 2}

\* how the promise returned by a client settles
NoReply == [kind |-> "pending", value |-> Undefined]
Rejected == [kind |-> "rejected", value |-> TransportError]
Fulfilled(response) == [kind |-> "fulfilled", value |-> response]

\* GenerateContentResponse of the Gemini client
GeminiResponse(text) == JObj(<< <<"text", text>> >>)
GeminiNoText == JObj(<<>>)

\* ChatCompletion of the OpenAI client
ChatCompletion(message) ==
  JObj(<< <<"choices", JArr(<< JObj(<< <<"message", message>> >>) >>)>> >>)
ToolCallMessage(arguments) ==
  JObj(<< <<"content", Null>>,
          <<"tool_calls",
            JArr(<< JObj(<< <<"function",
                    JObj(<< <<"name", JStr("extract_features")>>,
                            <<"arguments", arguments>> >>)>> >>) >>)>> >>)
ContentMessage(content) == JObj(<< <<"content", content>> >>)
NoChoices == JObj(<< <<"choices", JArr(<<>>)>> >>)

GeminiExtractReplies ==
  {Rejected, Fulfilled(GeminiNoText)}
    \cup {Fulfilled(GeminiResponse(Text(t))) : t \in ExtractTexts}

OpenAIExtractReplies ==
  {Rejected, Fulfilled(NoChoices),
   Fulfilled(ChatCompletion(ContentMessage(Text(<<"[", "]">>))))}
    \cup {Fulfilled(ChatCompletion(ToolCallMessage(Text(t)))) :
            t \in ExtractTexts}

GeminiGuideReplies ==
  {Rejected, Fulfilled(GeminiNoText)}
    \cup {Fulfilled(GeminiResponse(Text(t))) : t \in GuideTexts}

OpenAIGuideReplies ==
  {Rejected, Fulfilled(NoChoices),
   Fulfilled(ChatCompletion(ContentMessage(Null)))}
    \cup {Fulfilled(ChatCompletion(ContentMessage(Text(t)))) :
            t \in GuideTexts}

\* the settlements a client can answer a request with
RepliesTo(request) ==
  IF request.schema = "none"
  THEN IF request.client = "openai"
       THEN OpenAIGuideReplies ELSE GeminiGuideReplies
  ELSE IF request.client = "openai"
       THEN OpenAIExtractReplies ELSE GeminiExtractReplies

\* ------------------------------------------------------------ call arguments
Providers == {Undefined, Null, JStr("gemini"), JStr("openai"), JStr("chatgpt")}
ArticleTexts == {JStr(""), JStr("Red Hat announced a new OpenShift feature.")}
GuideFeatures == {Undefined, Feature1}
UseCases == {JStr("a")}
Industries == {Undefined, JStr("Finance")}

NoArgs ==
  [articleText |-> Undefined, feature |-> Undefined, useCase |-> Undefined,
   provider |-> Undefined, industry |-> Undefined]

\* -------------------------------------------------------------------- state
Calls == {"c1", "c2"}

VARIABLES
  module,   \* the module-level bindings (clients, model names, schemas)
  op,       \* op[c]: the operation invoked as call c
  args,     \* args[c]: the arguments call c was invoked with
  pc,       \* pc[c]: "idle", "awaiting", "resolved" or "rejected"
  sent,     \* sent[c]: the outbound requests call c has issued, in order
  replies,  \* replies[c]: how the promise of the request of c has settled
  result,   \* result[c]: the value (or error) the promise of c settled with
  console,  \* the diagnostics written by console.error, in order
  overlapped \* history: some call was invoked while another was suspended

vars == <<module, op, args, pc, sent, replies, result, console, overlapped>>

Init ==
  /\ module = ModuleState
  /\ op = [c \in Calls |-> "none"]
  /\ args = [c \in Calls |-> NoArgs]
  /\ pc = [c \in Calls |-> "idle"]
  /\ sent = [c \in Calls |-> <<>>]
  /\ replies = [c \in Calls |-> NoReply]
  /\ result = [c \in Calls |-> Undefined]
  /\ console = <<>>
  /\ overlapped = FALSE

\* the provider parameter as bound in the body of call c
Provider(c) == DefaultProvider(args[c].provider)

\* faulty variant: a response is matched to a call by its client, not by its request
ReplyForAnyOnClient(c) ==
  IF \E d \in Calls \ {c} :
       /\ sent[d] # <<>> /\ sent[c] # <<>>
       /\ sent[d][1].client = sent[c][1].client
       /\ replies[d].kind # "pending"
  THEN replies[CHOOSE d \in Calls \ {c} :
                 /\ sent[d] # <<>>
                 /\ sent[d][1].client = sent[c][1].client
                 /\ replies[d].kind # "pending"]
  ELSE replies[c]

\* the settlement the continuation of call c is resumed with
ReplyFor(c) == replies[c]

\* ---------------------------------------------------------- extractFeatures
\* faulty variant: the extraction request always goes to the Gemini client
ExtractRequestGemini(articleText, provider) ==
  [client |-> "ai", model |-> GEMINI_MODEL_EXTRACT,
   prompt |-> <<"extract", articleText>>, schema |-> geminiExtractionSchema]

\* the request built before the await
ExtractRequest(articleText, provider) ==
  IF IsOpenAI(provider)
  THEN [client |-> "openai", model |-> CHATGPT_MODEL_EXTRACT,
        prompt |-> <<"extract", articleText>>,
        schema |-> openaiExtractionSchema]
  ELSE [client |-> "ai", model |-> GEMINI_MODEL_EXTRACT,
        prompt |-> <<"extract", articleText>>,
        schema |-> geminiExtractionSchema]

ToolCallArguments ==
  <<"choices", "0", "message", "tool_calls", "0", "function", "arguments">>

\* faulty variant: the wrapper property is returned without the || [] default
OrEmptyMissing(x) == x

\* parsedObject.extractedFeatures || []
OrEmpty(x) == IF Truthy(x) THEN x ELSE JArr(<<>>)

\* the try block after the await: the value of finalResult, or what is thrown
ExtractTry(provider, reply) ==
  IF reply.kind = "rejected" THEN Throw(reply.value)
  ELSE IF IsOpenAI(provider) THEN
    LET callArguments == Access(reply.value, ToolCallArguments) IN
    IF callArguments.threw THEN callArguments
    ELSE LET parsedObject == JSONparse(callArguments.val) IN
      IF parsedObject.threw THEN parsedObject
      ELSE LET e == GetProp(parsedObject.val, "extractedFeatures") IN
        IF e.threw THEN e
        ELSE Ok(OrEmpty(e.val))
  ELSE
    LET text == Access(reply.value, <<"text">>) IN
    IF text.threw THEN text
    ELSE LET jsonText == CallTrim(text.val) IN
      IF jsonText.threw THEN jsonText ELSE JSONparse(jsonText.val)

\* faulty variant: the catch block rethrows
ExtractCatchRethrow(provider) ==
  [pc |-> "rejected", value |-> TypeError, log |-> <<>>]

\* the catch block: log with the provider tag, return []
ExtractCatch(provider) ==
  LET tag == ToUpperCase(provider) IN
  IF tag.threw
  THEN [pc |-> "rejected", value |-> tag.val, log |-> <<>>]
  ELSE [pc |-> "resolved", value |-> JArr(<<>>),
        log |-> <<[tag |-> tag.val, msg |-> "API Extraction Error"]>>]

\* everything after the await
ExtractSettle(provider, reply) ==
  LET body == ExtractTry(provider, reply) IN
  IF body.threw THEN ExtractCatch(provider)
  ELSE [pc |-> "resolved", value |-> body.val, log |-> <<>>]

\* invocation up to the await: build the prompt, issue the request
extractFeatures_call(c, articleText, provider) ==
  /\ pc[c] = "idle"
  /\ op' = [op EXCEPT ![c] = "extractFeatures"]
  /\ args' = [args EXCEPT ![c] =
       [NoArgs EXCEPT !.articleText = articleText, !.provider = provider]]
  /\ sent' = [sent EXCEPT ![c] =
       Append(@, ExtractRequest(articleText, DefaultProvider(provider)))]
  /\ pc' = [pc EXCEPT ![c] = "awaiting"]
  /\ overlapped' = (overlapped \/ \E d \in Calls : pc[d] = "awaiting")
  /\ UNCHANGED <<module, replies, result, console>>

\* the continuation: parse the response, or absorb the failure
extractFeatures_resume(c) ==
  /\ pc[c] = "awaiting" /\ op[c] = "extractFeatures"
  /\ ReplyFor(c).kind # "pending"
  /\ LET o == ExtractSettle(Provider(c), ReplyFor(c)) IN
       /\ pc' = [pc EXCEPT ![c] = o.pc]
       /\ result' = [result EXCEPT ![c] = o.value]
       /\ console' = console \o [i \in 1..Len(o.log) |->
                                   [by |-> c, tag |-> o.log[i].tag,
                                    msg |-> o.log[i].msg]]
  /\ UNCHANGED <<module, op, args, sent, replies, overlapped>>

\* ------------------------------------------------------------ generateGuide
DefaultIndustry(i) == IF i.type = "undefined" THEN JStr("General Tech") ELSE i

\* the template literal: reads feature.featureName and feature.featureSummary
GuidePrompt(feature, useCase, industry) ==
  LET name == GetProp(feature, "featureName") IN
  IF name.threw THEN name
  ELSE LET summary == GetProp(feature, "featureSummary") IN
    IF summary.threw THEN summary
    ELSE Ok(<<"guide", name.val, summary.val, useCase, industry>>)

GuideRequest(prompt, provider) ==
  IF IsOpenAI(provider)
  THEN [client |-> "openai", model |-> CHATGPT_MODEL_GUIDE,
        prompt |-> prompt, schema |-> "none"]
  ELSE [client |-> "ai", model |-> GEMINI_MODEL_GUIDE,
        prompt |-> prompt, schema |-> "none"]

MessageContent == <<"choices", "0", "message", "content">>

\* the try block after the await: the returned string, or what is thrown
GuideTry(provider, reply) ==
  IF reply.kind = "rejected" THEN Throw(reply.value)
  ELSE LET responseText ==
             IF IsOpenAI(provider) THEN Access(reply.value, MessageContent)
             ELSE Access(reply.value, <<"text">>) IN
    IF responseText.threw THEN responseText
    ELSE CallReplaceTrim(responseText.val)

\* faulty variant: the catch block returns the empty string
GuideCatchEmpty(provider) ==
  LET tag == ToUpperCase(provider) IN
  IF tag.threw
  THEN [pc |-> "rejected", value |-> tag.val, log |-> <<>>]
  ELSE [pc |-> "resolved", value |-> Text(<<>>),
        log |-> <<[tag |-> tag.val, msg |-> "API Guide Generation Error"]>>]

\* the catch block: log with the provider tag, return the fallback fragment
GuideCatch(provider) ==
  LET tag == ToUpperCase(provider) IN
  IF tag.threw
  THEN [pc |-> "rejected", value |-> tag.val, log |-> <<>>]
  ELSE [pc |-> "resolved", value |-> FallbackFragment,
        log |-> <<[tag |-> tag.val, msg |-> "API Guide Generation Error"]>>]

GuideSettle(provider, reply) ==
  LET body == GuideTry(provider, reply) IN
  IF body.threw THEN GuideCatch(provider)
  ELSE [pc |-> "resolved", value |-> body.val, log |-> <<>>]

\* invocation up to the await: the prompt is built outside the try block,
\* so an exception of the template literal rejects the returned promise
generateGuide_call(c, feature, useCase, provider, industry) ==
  /\ pc[c] = "idle"
  /\ op' = [op EXCEPT ![c] = "generateGuide"]
  /\ args' = [args EXCEPT ![c] =
       [NoArgs EXCEPT !.feature = feature, !.useCase = useCase,
                      !.provider = provider, !.industry = industry]]
  /\ LET guidePrompt ==
           GuidePrompt(feature, useCase, DefaultIndustry(industry)) IN
       IF guidePrompt.threw
       THEN /\ pc' = [pc EXCEPT ![c] = "rejected"]
            /\ result' = [result EXCEPT ![c] = guidePrompt.val]
            /\ UNCHANGED sent
       ELSE /\ pc' = [pc EXCEPT ![c] = "awaiting"]
            /\ sent' = [sent EXCEPT ![c] =
                 Append(@, GuideRequest(guidePrompt.val,
                                        DefaultProvider(provider)))]
            /\ UNCHANGED result
  /\ overlapped' = (overlapped \/ \E d \in Calls : pc[d] = "awaiting")
  /\ UNCHANGED <<module, replies, console>>

generateGuide_resume(c) ==
  /\ pc[c] = "awaiting" /\ op[c] = "generateGuide"
  /\ ReplyFor(c).kind # "pending"
  /\ LET o == GuideSettle(Provider(c), ReplyFor(c)) IN
       /\ pc' = [pc EXCEPT ![c] = o.pc]
       /\ result' = [result EXCEPT ![c] = o.value]
       /\ console' = console \o [i \in 1..Len(o.log) |->
                                   [by |-> c, tag |-> o.log[i].tag,
                                    msg |-> o.log[i].msg]]
  /\ UNCHANGED <<module, op, args, sent, replies, overlapped>>

\* ------------------------------------------------------- the client (env)
\* the promise of the one request in flight for call c settles
ClientSettles(c, reply) ==
  /\ pc[c] = "awaiting"
  /\ Len(sent[c]) > 0
  /\ replies[c].kind = "pending"
  /\ replies' = [replies EXCEPT ![c] = reply]
  /\ UNCHANGED <<module, op, args, pc, sent, result, console, overlapped>>

\* ---------------------------------------------------------- specifications
\* Spec: one call, every argument and every response shape
CallExtract ==
  \E articleText \in ArticleTexts, provider \in Providers :
    extractFeatures_call("c1", articleText, provider)

CallGuide ==
  \E feature \in GuideFeatures, useCase \in UseCases,
     provider \in Providers, industry \in Industries :
    generateGuide_call("c1", feature, useCase, provider, industry)

Settle ==
  /\ pc["c1"] = "awaiting" /\ replies["c1"].kind = "pending"
  /\ \E reply \in RepliesTo(sent["c1"][Len(sent["c1"])]) :
       ClientSettles("c1", reply)

ResumeExtract == extractFeatures_resume("c1")
ResumeGuide == generateGuide_resume("c1")

Next ==
  \/ CallExtract
  \/ CallGuide
  \/ Settle
  \/ ResumeExtract
  \/ ResumeGuide

Spec == Init /\ [][Next]_vars

\* SpecConc: two calls whose executions overlap, responses in any order
ConcProviders == {JStr("gemini"), JStr("openai")}

ConcExtractTexts ==
  {Stringify(JArr(<<>>)), Stringify(JArr(<<Feature1>>)),
   Stringify(Wrap(JArr(<<Feature2>>))), <<"[">>}

ConcGuideTexts == {<<"h">>, Wrapped(HtmlTag, <<"t">>)}

ConcRepliesTo(request) ==
  IF request.schema = "none"
  THEN {Rejected} \cup
       {Fulfilled(IF request.client = "openai"
                  THEN ChatCompletion(ContentMessage(Text(t)))
                  ELSE GeminiResponse(Text(t))) : t \in ConcGuideTexts}
  ELSE {Rejected} \cup
       {Fulfilled(IF request.client = "openai"
                  THEN ChatCompletion(ToolCallMessage(Text(t)))
                  ELSE GeminiResponse(Text(t))) : t \in ConcExtractTexts}

ConcCallExtract ==
  \E c \in Calls, provider \in ConcProviders :
    extractFeatures_call(c, JStr(""), provider)

ConcCallGuide ==
  \E c \in Calls, provider \in ConcProviders :
    generateGuide_call(c, Feature1, JStr("a"), provider, Undefined)

ConcSettle ==
  \E c \in Calls :
    /\ pc[c] = "awaiting" /\ replies[c].kind = "pending"
    /\ \E reply \in ConcRepliesTo(sent[c][Len(sent[c])]) :
         ClientSettles(c, reply)

ConcResumeExtract == \E c \in Calls : extractFeatures_resume(c)
ConcResumeGuide == \E c \in Calls : generateGuide_resume(c)

NextConc ==
  \/ ConcCallExtract
  \/ ConcCallGuide
  \/ ConcSettle
  \/ ConcResumeExtract
  \/ ConcResumeGuide

SpecConc == Init /\ [][NextConc]_vars

\* ------------------------------------------------------------ vocabulary
Settled(c) == pc[c] \in {"resolved", "rejected"}
IsExtract(c) == op[c] = "extractFeatures"
IsGuide(c) == op[c] = "generateGuide"
LoggedBy(c) == \E i \in 1..Len(console) : console[i].by = c
EmptySequence == JArr(<<>>)

\* the provider argument is one of the two documented selectors (or absent)
DocumentedProvider(c) ==
  Provider(c).type = "string" /\ Provider(c).str \in {"gemini", "openai"}

GeminiPath(c) == ~IsOpenAI(Provider(c))

\* the text the response of call c carries, where the operation looks for it
Payload(c) ==
  IF IsExtract(c)
  THEN IF IsOpenAI(Provider(c))
       THEN Access(replies[c].value, ToolCallArguments)
       ELSE Access(replies[c].value, <<"text">>)
  ELSE IF IsOpenAI(Provider(c))
       THEN Access(replies[c].value, MessageContent)
       ELSE Access(replies[c].value, <<"text">>)

HasText(c) ==
  /\ replies[c].kind = "fulfilled"
  /\ ~Payload(c).threw
  /\ Payload(c).val.type = "string"

RequestFailed(c) == replies[c].kind = "rejected"

\* the response lacks the field the operation reads
MissingFields(c) == replies[c].kind = "fulfilled" /\ ~HasText(c)

\* the payload is text, and not JSON text
NotJson(c) ==
  /\ HasText(c)
  /\ JSONparse(IF IsOpenAI(Provider(c)) THEN Payload(c).val
               ELSE Text(Trim(Payload(c).val.chars))).threw

\* ----------------------------------------------------------------------- C1
\* C1: extractFeatures never raises: with provider gemini or openai, every
\* settled call is resolved, and when the request failed, the response lacks
\* the expected fields, or its text is not JSON, the result is the empty
\* sequence.
C1_ExtractNeverRaises ==
  \A c \in Calls :
    (IsExtract(c) /\ Settled(c) /\ DocumentedProvider(c)) =>
      /\ pc[c] = "resolved"
      /\ (RequestFailed(c) \/ MissingFields(c) \/ NotJson(c)) =>
           result[c] = EmptySequence

C1_Witness ==
  /\ IsExtract("c1") /\ pc["c1"] = "resolved"
  /\ IsOpenAI(Provider("c1")) /\ MissingFields("c1")
  /\ result["c1"] = EmptySequence

\* ----------------------------------------------------------------------- C2
\* C2: generateGuide never raises: with provider gemini or openai, every
\* settled call is resolved, and a call that failed while building the
\* prompt, in the request or in the post-processing resolved to the fallback
\* fragment and logged a diagnostic.
GuideFailed(c) ==
  \/ sent[c] = <<>>
  \/ RequestFailed(c)
  \/ MissingFields(c)

C2_GuideNeverRaises ==
  \A c \in Calls :
    (IsGuide(c) /\ Settled(c) /\ DocumentedProvider(c)) =>
      /\ pc[c] = "resolved"
      /\ GuideFailed(c) => (result[c] = FallbackFragment /\ LoggedBy(c))

\* ----------------------------------------------------------------------- C3
\* C3: whatever the provider returns, the value extractFeatures resolves to
\* is a sequence.
C3_ResultIsSequence ==
  \A c \in Calls :
    (IsExtract(c) /\ pc[c] = "resolved" /\ DocumentedProvider(c)) =>
      result[c].type = "array"

\* ----------------------------------------------------------------------- C4
\* the response texts that are an array envelope of feature objects, with
\* surrounding whitespace, each with the array it denotes
ArrayEnvelopeTexts ==
  {<<l \o Stringify(a) \o r, a>> :
     l \in Paddings, a \in FeatureArrays, r \in Paddings}

\* C4: on the gemini path, a response text that is a JSON array of N feature
\* objects (possibly surrounded by whitespace) makes extractFeatures resolve
\* to exactly those N records, in order.
C4_GeminiArrayRoundTrip ==
  \A c \in Calls :
    (IsExtract(c) /\ Settled(c) /\ GeminiPath(c) /\ HasText(c)) =>
      \A e \in ArrayEnvelopeTexts :
        Payload(c).val.chars = e[1] =>
          (pc[c] = "resolved" /\ result[c] = e[2])

C4_Witness ==
  /\ IsExtract("c1") /\ pc["c1"] = "resolved" /\ GeminiPath("c1")
  /\ HasText("c1")
  /\ Payload("c1").val.chars =
       <<"nbsp">> \o Stringify(JArr(<<Feature1, Feature2>>)) \o <<" ", "\n">>
  /\ result["c1"] = JArr(<<Feature1, Feature2>>)

\* ----------------------------------------------------------------------- C5
JsonPaddings == {p \in Paddings : \A i \in 1..Len(p) : p[i] \in JsonSpace}

ObjectEnvelopeTexts ==
  {<<l \o Stringify(Wrap(a)) \o r, a>> :
     l \in JsonPaddings, a \in FeatureArrays, r \in JsonPaddings}

\* C5: on the openai path, tool-call arguments that parse to an object whose
\* extractedFeatures is an array resolve to exactly that array; arguments
\* that parse to an object without the key resolve to the empty sequence by
\* the normal return (nothing is logged).
C5_OpenAIUnwrap ==
  \A c \in Calls :
    (IsExtract(c) /\ Settled(c) /\ IsOpenAI(Provider(c)) /\ HasText(c)) =>
      /\ \A e \in ObjectEnvelopeTexts :
           Payload(c).val.chars = e[1] =>
             (pc[c] = "resolved" /\ result[c] = e[2] /\ ~LoggedBy(c))
      /\ LET parsed == JSONparse(Payload(c).val) IN
         (~parsed.threw /\ parsed.val.type = "object") =>
           IF HasKey(parsed.val.props, "extractedFeatures")
           THEN LET x == GetProp(parsed.val, "extractedFeatures").val IN
                x.type = "array" =>
                  (pc[c] = "resolved" /\ result[c] = x /\ ~LoggedBy(c))
           ELSE pc[c] = "resolved" /\ result[c] = EmptySequence
                /\ ~LoggedBy(c)

C5_Witness ==
  /\ IsExtract("c1") /\ pc["c1"] = "resolved" /\ IsOpenAI(Provider("c1"))
  /\ HasText("c1")
  /\ Payload("c1").val.chars = Stringify(JObj(<<>>))
  /\ result["c1"] = EmptySequence /\ ~LoggedBy("c1")

\* ----------------------------------------------------------------------- C6
\* the ways to read text t as an inner text between an opening fence (with
\* tag) and a closing fence
Unwrappings(t) ==
  {d \in {<<tag, SubSeq(t, Len(Fence) + Len(tag) + 1, Len(t) - Len(Fence))>> :
            tag \in Tags} :
     Len(t) >= 2 * Len(Fence) + Len(d[1]) /\ Wrapped(d[1], d[2]) = t}

ContainsFence(s) ==
  \E i \in 1..Len(s) : StartsWith(Drop(s, i - 1), Fence)

\* C6 as stated: a response that is an inner text between a leading fence
\* (optionally tagged html) and a trailing fence resolves to the trimmed
\* inner text, for every inner text.
C6_Original ==
  \A c \in Calls :
    (IsGuide(c) /\ Settled(c) /\ HasText(c)) =>
      \A d \in Unwrappings(Payload(c).val.chars) :
        pc[c] = "resolved" /\ result[c] = Text(Trim(d[2]))

\* C6 as amended: the same, for every inner text that contains no fence
\* (no three consecutive backquotes) and that, under an untagged opening
\* fence, does not itself begin with html.
C6_Amended ==
  \A c \in Calls :
    (IsGuide(c) /\ Settled(c) /\ HasText(c)) =>
      \A d \in Unwrappings(Payload(c).val.chars) :
        (~ContainsFence(d[2]) /\ (d[1] = <<>> => ~StartsWith(d[2], HtmlTag)))
          => (pc[c] = "resolved" /\ result[c] = Text(Trim(d[2])))

C6_Witness ==
  /\ IsGuide("c1") /\ pc["c1"] = "resolved" /\ HasText("c1")
  /\ Payload("c1").val.chars = Wrapped(HtmlTag, <<" ", "h", "bq", " ">>)
  /\ result["c1"] = Text(<<"h", "bq">>)

\* ----------------------------------------------------------------------- C7
\* C7: when the provider request of generateGuide fails, the call resolves
\* to exactly the fallback fragment, for gemini and for openai alike.
C7_TransportFailureFallback ==
  \A c \in Calls :
    (IsGuide(c) /\ Settled(c) /\ DocumentedProvider(c) /\ RequestFailed(c))
      => (pc[c] = "resolved" /\ result[c] = FallbackFragment)

C7_Witness ==
  /\ IsGuide("c1") /\ pc["c1"] = "resolved" /\ IsOpenAI(Provider("c1"))
  /\ RequestFailed("c1") /\ result["c1"] = FallbackFragment

\* ----------------------------------------------------------------------- C8
RightClient(c) ==
  \A i \in 1..Len(sent[c]) : sent[c][i].client = ClientOf(Provider(c))

\* the prompt of a generateGuide call cannot be built
PromptThrows(c) ==
  /\ IsGuide(c)
  /\ GuidePrompt(args[c].feature, args[c].useCase,
                 DefaultIndustry(args[c].industry)).threw

\* C8 as stated: every call issues, between invocation and return, exactly
\* one request, to the client its provider argument selects.
C8_Original ==
  \A c \in Calls :
    /\ Len(sent[c]) <= 1 /\ RightClient(c)
    /\ Settled(c) => Len(sent[c]) = 1

\* C8 as amended: a call never issues more than one request, and only to the
\* client its provider argument selects; a settled call has issued exactly
\* one, except a generateGuide call whose prompt could not be built, which
\* has issued none.
C8_Amended ==
  \A c \in Calls :
    /\ Len(sent[c]) <= 1 /\ RightClient(c)
    /\ Settled(c) => Len(sent[c]) = (IF PromptThrows(c) THEN 0 ELSE 1)

C8_Witness ==
  /\ IsExtract("c1") /\ pc["c1"] = "resolved" /\ NotJson("c1")
  /\ IsOpenAI(Provider("c1"))
  /\ Len(sent["c1"]) = 1 /\ sent["c1"][1].client = "openai"

\* ----------------------------------------------------------------------- C9
\* how the call would have settled had its provider argument been gemini
AsGemini(c) ==
  IF IsExtract(c) THEN ExtractSettle(JStr("gemini"), replies[c])
  ELSE GuideSettle(JStr("gemini"), replies[c])

\* C9: with any provider argument other than the string openai, the request
\* goes to the gemini client and the call settles exactly as with gemini:
\* the parsed response on success, the safe default on failure.
C9_UnrecognizedAsGemini ==
  \A c \in Calls :
    (Settled(c) /\ ~IsOpenAI(Provider(c)) /\ sent[c] # <<>>) =>
      /\ sent[c][1].client = "ai"
      /\ pc[c] = AsGemini(c).pc
      /\ pc[c] = "resolved" => result[c] = AsGemini(c).value

\* ---------------------------------------------------------------------- C10
\* what call c returns when run alone with its arguments and its response
Alone(c) ==
  IF IsExtract(c) THEN ExtractSettle(Provider(c), replies[c])
  ELSE GuideSettle(Provider(c), replies[c])

\* C10: under every interleaving of two overlapping calls, a settled call
\* has settled with the value its own arguments and the response to its own
\* request determine, a call still suspended has no result, and the
\* module-level bindings are as they were created.
C10_NoInterference ==
  /\ module = ModuleState
  /\ \A c \in Calls :
       /\ (Settled(c) /\ sent[c] # <<>>) =>
            /\ replies[c].kind # "pending"
            /\ pc[c] = Alone(c).pc
            /\ result[c] = Alone(c).value
       /\ ~Settled(c) => result[c] = Undefined

C10_Witness ==
  /\ overlapped
  /\ IsExtract("c1") /\ IsExtract("c2")
  /\ pc["c1"] = "resolved" /\ pc["c2"] = "resolved"
  /\ sent["c1"][1].client = "ai" /\ sent["c2"][1].client = "ai"
  /\ result["c1"] = JArr(<<Feature1>>)
  /\ result["c2"] = EmptySequence /\ RequestFailed("c2")

====
